---- MODULE Spec2Model ----
\* Model of the OpenSky flight map: the ingestion job (get_data.py) appending
\* stamped batches to flights.main.flight_data, and the Streamlit dashboard
\* (app.py) reading the table through load_data under st.cache_data(ttl=60).
EXTENDS Integers, Sequences, FiniteSets, TLC

\* ---------------------------------------------------------------- bounds
MaxRuns == 2
MaxBatch == 2
MaxMono == 125

\* ------------------------------------------------------------- constants
\* @st.cache_data(ttl=60)
TTL == 60
\* a missing float (pandas NaN, SQL NULL in a DOUBLE column)
NaN == -999
\* a missing string (None, SQL NULL in a VARCHAR column)
NULL == "NULL"
\* SQL NULL in a TIMESTAMPTZ column, Python None for last_updated
NoTime == -1

\* ------------------------------------------------------------ data frames
\* A DataFrame is [columns |-> set of names, rows |-> sequence of records].
\* Only the columns the program branches on carry values in the records.

\* Columns of the frame returned by pyopensky's REST().states().
FeedColumns ==
    {"timestamp", "icao24", "callsign", "origin_country", "last_position",
     "longitude", "latitude", "baro_altitude", "onground", "groundspeed",
     "track", "vertical_rate", "sensors", "geoaltitude", "squawk", "spi",
     "position_source"}

rename_map(c) ==
    CASE c = "timestamp" -> "timestamp_utc"
      [] c = "onground" -> "on_ground"
      [] c = "groundspeed" -> "velocity"
      [] c = "track" -> "track_heading"
      [] c = "baro_altitude" -> "altitude"
      [] c = "geoaltitude" -> "geo_altitude"
      [] OTHER -> c

Rename(cols) == {rename_map(c) : c \in cols}

columns_to_keep ==
    {"icao24", "callsign", "origin_country", "last_position",
     "timestamp_utc", "longitude", "latitude", "altitude",
     "on_ground", "velocity", "track_heading", "vertical_rate",
     "geo_altitude", "squawk", "spi", "position_source",
     "updated_at_utc"}

\* Columns of flights.main.flight_data (CREATE TABLE ... sql_cols).
sql_cols == columns_to_keep

\* str.strip() on the callsigns the feed records below use.
StrStrip(s) ==
    CASE s = "AAL1  " -> "AAL1"
      [] s = " BAW2" -> "BAW2"
      [] OTHER -> s

\* The feed records a snapshot is drawn from: two aircraft with a position,
\* a record without a transponder id, and two records without a position.
FeedRecords ==
    { [icao24 |-> "a", callsign |-> "AAL1  ", origin_country |-> "US",
       latitude |-> 10, longitude |-> 20],
      [icao24 |-> "b", callsign |-> " BAW2", origin_country |-> "UK",
       latitude |-> 30, longitude |-> 40],
      [icao24 |-> NULL, callsign |-> NULL, origin_country |-> NULL,
       latitude |-> 50, longitude |-> 60],
      [icao24 |-> "a", callsign |-> "AAL1  ", origin_country |-> "US",
       latitude |-> NaN, longitude |-> 20],
      [icao24 |-> "b", callsign |-> " BAW2", origin_country |-> "UK",
       latitude |-> 30, longitude |-> NaN] }

SeqsUpTo(S, n) == UNION {[1..k -> S] : k \in 0..n}

\* The column sets the feed may deliver (schema drift of the upstream feed).
FeedColumnSets ==
    {FeedColumns, FeedColumns \ {"latitude"}, FeedColumns \ {"icao24"}}

\* A value read from a column that the frame does not have is missing.
Project(r, cols) ==
    [icao24 |-> IF "icao24" \in cols THEN r.icao24 ELSE NULL,
     callsign |-> IF "callsign" \in cols THEN r.callsign ELSE NULL,
     origin_country |-> IF "origin_country" \in cols THEN r.origin_country ELSE NULL,
     latitude |-> IF "latitude" \in cols THEN r.latitude ELSE NaN,
     longitude |-> IF "longitude" \in cols THEN r.longitude ELSE NaN]

\* The feed reports an aircraft at most once in a snapshot.
OncePerAircraft(rs) ==
    \A i, j \in DOMAIN rs : i # j => rs[i].icao24 # rs[j].icao24

Snapshots ==
    {[columns |-> cs, rows |-> [i \in DOMAIN rs |-> Project(rs[i], cs)]] :
        cs \in FeedColumnSets,
        rs \in {s \in SeqsUpTo(FeedRecords, MaxBatch) : OncePerAircraft(s)}}

EmptyFrame == [columns |-> {}, rows |-> <<>>]

VARIABLES
    store,        \* rows of flights.main.flight_data, in insertion order
    tableExists,  \* whether flights.main.flight_data has been created
    wallClock,    \* datetime.now(timezone.utc) on the ingestion host
    ingPc,        \* position of the ingestion script
    ingDf,        \* the script's df / df_final
    ingCon,       \* the script's connection is open
    ingRuns,      \* runs started so far
    ingLog,       \* history of the current run
    monoClock,    \* the timer st.cache_data measures the ttl with
    cache,        \* the cache entry of load_data
    dashPc,       \* position of the dashboard script
    dashCon,      \* load_data's connection is open
    df,           \* load_data's df, then the script's df
    last_updated, \* load_data's last_updated_utc, then the script's last_updated
    dashLog,      \* history of the current dashboard run
    dashOutcome   \* how the last dashboard run ended

vars == <<store, tableExists, wallClock, ingPc, ingDf, ingCon, ingRuns, ingLog,
          monoClock, cache, dashPc, dashCon, df, last_updated, dashLog,
          dashOutcome>>

storeVars == <<store, tableExists>>
ingVars == <<wallClock, ingPc, ingDf, ingCon, ingRuns, ingLog>>
dashVars == <<monoClock, cache, dashPc, dashCon, df, last_updated, dashLog,
              dashOutcome>>

\* ------------------------------------------------------- get_data.py
\* Seconds a call to the feed takes on the ingestion host's clock: the
\* request is a network round trip, so the clock has moved on when it returns.
FetchLatency == {1, 2}

\* df.dropna(subset=['latitude', 'longitude'])
DropNa(rows) ==
    SelectSeq(rows, LAMBDA r : r.latitude # NaN /\ r.longitude # NaN)

\* A mutant of Stamp: every row stamped with its own reading of the clock.
StampPerRow(rows, t) ==
    [i \in DOMAIN rows |->
        [icao24 |-> rows[i].icao24, callsign |-> rows[i].callsign,
         origin_country |-> rows[i].origin_country,
         latitude |-> rows[i].latitude, longitude |-> rows[i].longitude,
         updated_at_utc |-> t + i - 1]]

\* df['updated_at_utc'] = datetime.now(timezone.utc): one scalar for the column.
Stamp(rows, t) ==
    [i \in DOMAIN rows |->
        [icao24 |-> rows[i].icao24, callsign |-> rows[i].callsign,
         origin_country |-> rows[i].origin_country,
         latitude |-> rows[i].latitude, longitude |-> rows[i].longitude,
         updated_at_utc |-> t]]

\* [col for col in columns_to_keep if col in df.columns]
final_columns(cols) == columns_to_keep \cap cols

\* df_final['callsign'].str.strip(), when the column exists; a missing value
\* stays missing.
CleanCallsign(rows, cols) ==
    [i \in DOMAIN rows |->
        IF "callsign" \in cols /\ rows[i].callsign # NULL
        THEN [rows[i] EXCEPT !.callsign = StrStrip(rows[i].callsign)]
        ELSE rows[i]]

\* Steps 3 to 6 on a fetched frame, for the frames on which they do not raise.
Normalize(snap, t) ==
    LET cols == Rename(snap.columns) \cup {"updated_at_utc"}
        kept == final_columns(cols)
    IN  [columns |-> kept,
         rows |-> CleanCallsign(Stamp(DropNa(snap.rows), t), kept)]

\* A mutant of InsertFailed: rows written one statement at a time, the
\* failure striking before the last one.
InsertFailedPartial(tbl, d) == tbl \o SubSeq(d.rows, 1, Len(d.rows) - 1)

\* INSERT INTO flights.main.flight_data (...) SELECT * FROM df_final, one
\* statement in its own transaction: the table after it succeeds ...
InsertInto(tbl, d) == tbl \o d.rows

\* ... and after it fails.
InsertFailed(tbl, d) == tbl

\* History of a run: whether the fetch raised, whether a connection was ever
\* opened, the table when the run started, the frame handed to the INSERT.
NewRun == [feedError |-> FALSE, connected |-> FALSE, storeBefore |-> store,
           batch |-> <<>>, outcome |-> "running"]

\* The script's process ends: its frame is gone, its connection is released.
IngEnd(how) ==
    /\ ingPc' = "idle"
    /\ ingDf' = EmptyFrame
    /\ ingCon' = FALSE
    /\ ingLog' = [ingLog EXCEPT !.outcome = how]

\* A mutant of IngFetchRaises: the failure is swallowed around the fetch and
\* the script goes on to the insert with a frame of its own making.
IngFetchRaisesGoesOn ==
    /\ ingPc = "idle" /\ ingRuns < MaxRuns
    /\ ingRuns' = ingRuns + 1
    /\ \E d \in FetchLatency : wallClock' = wallClock + d
    /\ ingPc' = "connect"
    /\ ingDf' = Normalize([columns |-> FeedColumns,
                           rows |-> <<CHOOSE r \in FeedRecords :
                                         r.icao24 = "a" /\ r.latitude # NaN>>],
                          wallClock')
    /\ ingCon' = FALSE
    /\ ingLog' = [NewRun EXCEPT !.feedError = TRUE]
    /\ UNCHANGED <<storeVars, dashVars>>

\* Lines 9-12 raise (feed unreachable, malformed payload): lines 117-120.
IngFetchRaises ==
    /\ ingPc = "idle" /\ ingRuns < MaxRuns
    /\ ingRuns' = ingRuns + 1
    /\ \E d \in FetchLatency : wallClock' = wallClock + d
    /\ ingPc' = "idle"
    /\ ingDf' = EmptyFrame
    /\ ingCon' = FALSE
    /\ ingLog' = [NewRun EXCEPT !.feedError = TRUE, !.outcome = "error"]
    /\ UNCHANGED <<storeVars, dashVars>>

\* Lines 9-17: the feed answers None or an empty frame; exit().
IngFetchEmpty ==
    /\ ingPc = "idle" /\ ingRuns < MaxRuns
    /\ ingRuns' = ingRuns + 1
    /\ \E d \in FetchLatency : wallClock' = wallClock + d
    /\ ingPc' = "idle"
    /\ ingDf' = EmptyFrame
    /\ ingCon' = FALSE
    /\ ingLog' = [NewRun EXCEPT !.outcome = "no_data"]
    /\ UNCHANGED <<storeVars, dashVars>>

\* Lines 9-19: the feed answers a frame with rows.
IngFetch ==
    /\ ingPc = "idle" /\ ingRuns < MaxRuns
    /\ ingRuns' = ingRuns + 1
    /\ \E d \in FetchLatency : wallClock' = wallClock + d
    /\ \E snap \in Snapshots :
          /\ snap.rows # <<>>
          /\ ingDf' = snap
    /\ ingPc' = "normalize"
    /\ ingCon' = FALSE
    /\ ingLog' = NewRun
    /\ UNCHANGED <<storeVars, dashVars>>

\* Lines 21-72: rename, drop rows without a position, stamp, select columns.
IngNormalize ==
    /\ ingPc = "normalize"
    /\ IF ~ ({"latitude", "longitude"} \subseteq Rename(ingDf.columns))
       THEN IngEnd("error")                      \* dropna raises KeyError
       ELSE IF DropNa(ingDf.rows) = <<>>
       THEN IngEnd("no_usable_data")             \* lines 35-37: exit()
       ELSE /\ ingDf' = Normalize(ingDf, wallClock)
            /\ ingPc' = "connect"
            /\ ingLog' = [ingLog EXCEPT !.batch = ingDf'.rows]
            /\ UNCHANGED ingCon
    /\ UNCHANGED <<storeVars, wallClock, ingRuns, dashVars>>

\* Lines 74-81: read the token, connect.
IngConnect ==
    /\ ingPc = "connect"
    /\ \E token \in BOOLEAN, ok \in BOOLEAN :
          IF ~token THEN IngEnd("no_token")      \* exit(1)
          ELSE IF ~ok THEN IngEnd("error")       \* duckdb.connect raises
          ELSE /\ ingCon' = TRUE
               /\ ingPc' = "create"
               /\ ingLog' = [ingLog EXCEPT !.connected = TRUE]
               /\ UNCHANGED ingDf
    /\ UNCHANGED <<storeVars, wallClock, ingRuns, dashVars>>

\* Line 105: CREATE TABLE IF NOT EXISTS.
IngCreateTable ==
    /\ ingPc = "create"
    /\ \E ok \in BOOLEAN :
          IF ok
          THEN /\ tableExists' = TRUE
               /\ ingPc' = "insert"
               /\ UNCHANGED <<ingDf, ingCon, ingLog>>
          ELSE /\ IngEnd("error")
               /\ UNCHANGED tableExists
    /\ UNCHANGED <<store, wallClock, ingRuns, dashVars>>

\* Lines 110-115: the INSERT, then con.close().
IngInsert ==
    /\ ingPc = "insert"
    /\ \E ok \in BOOLEAN :
          IF ok
          THEN /\ store' = InsertInto(store, ingDf)
               /\ IngEnd("saved")
          ELSE /\ store' = InsertFailed(store, ingDf)
               /\ IngEnd("insert_failed")
    /\ UNCHANGED <<tableExists, wallClock, ingRuns, dashVars>>

Ingest ==
    \/ IngFetchRaises
    \/ IngFetchEmpty
    \/ IngFetch
    \/ IngNormalize
    \/ IngConnect
    \/ IngCreateTable
    \/ IngInsert

\* ------------------------------------------------------------ app.py
\* Seconds that pass on the dashboard's timer between two steps.
Elapsed == {30, 31}

\* SELECT max(updated_at_utc) FROM flights.main.flight_data
RECURSIVE MaxStamp(_)
MaxStamp(rows) ==
    IF rows = <<>> THEN NoTime
    ELSE LET m == MaxStamp(Tail(rows))
             t == Head(rows).updated_at_utc
         IN  IF m = NoTime \/ t > m THEN t ELSE m

\* select * from flight_data where updated_at_utc = (select max(updated_at_utc) ...)
\* On an empty table the subquery is NULL and no row compares equal to it.
sql_query(tbl) ==
    LET m == MaxStamp(tbl)
    IN  SelectSeq(tbl, LAMBDA r : m # NoTime /\ r.updated_at_utc = m)

NoEntry == [filled |-> FALSE, at |-> 0, df |-> EmptyFrame, last |-> NoTime,
            gen |-> 0]

\* A mutant of CacheHit: an entry that never expires.
CacheHitForever(c, t) == c.filled

\* st.cache_data(ttl=60): the entry written at c.at serves a call at t while
\* t < c.at + ttl.
CacheHit(c, t) == c.filled /\ t < c.at + TTL

\* The entry st.cache_data writes when load_data returns (d, last) at time t.
Populate(c, d, last, t) ==
    [filled |-> TRUE, at |-> t, df |-> d, last |-> last, gen |-> c.gen + 1]

NoCall == [fromCache |-> FALSE, failed |-> FALSE, prior |-> NoEntry]

Tick ==
    /\ \E d \in Elapsed :
          /\ monoClock + d <= MaxMono
          /\ monoClock' = monoClock + d
    /\ UNCHANGED <<storeVars, ingVars, cache, dashPc, dashCon, df,
                   last_updated, dashLog, dashOutcome>>

\* Line 43, the entry is live: the cached value is returned.
DashCallHit ==
    /\ dashPc = "idle"
    /\ CacheHit(cache, monoClock)
    /\ df' = cache.df
    /\ last_updated' = cache.last
    /\ dashPc' = "render"
    /\ dashLog' = [fromCache |-> TRUE, failed |-> FALSE, prior |-> cache]
    /\ dashOutcome' = "running"
    /\ UNCHANGED <<storeVars, ingVars, monoClock, cache, dashCon>>

\* Line 43, no live entry: the body of load_data runs.
DashCallMiss ==
    /\ dashPc = "idle"
    /\ ~CacheHit(cache, monoClock)
    /\ df' = EmptyFrame
    /\ last_updated' = NoTime
    /\ dashCon' = FALSE
    /\ dashPc' = "connect"
    /\ dashLog' = [fromCache |-> FALSE, failed |-> FALSE, prior |-> cache]
    /\ dashOutcome' = "running"
    /\ UNCHANGED <<storeVars, ingVars, monoClock, cache>>

\* Lines 38-40: st.error, return (pd.DataFrame(), None); the decorator caches
\* what the function returned.
LoadExcept ==
    /\ df' = EmptyFrame
    /\ last_updated' = NoTime
    /\ cache' = Populate(cache, EmptyFrame, NoTime, monoClock)
    /\ dashPc' = "render"
    /\ dashLog' = [dashLog EXCEPT !.failed = TRUE]

\* Lines 19-20: the secret, the connection.
LoadConnect ==
    /\ dashPc = "connect"
    /\ \E token \in BOOLEAN, ok \in BOOLEAN :
          IF token /\ ok
          THEN /\ dashCon' = TRUE
               /\ dashPc' = "rows"
               /\ UNCHANGED <<cache, df, last_updated, dashLog>>
          ELSE /\ LoadExcept                      \* KeyError / duckdb.Error
               /\ UNCHANGED dashCon
    /\ UNCHANGED <<storeVars, ingVars, monoClock, dashOutcome>>

\* Lines 23-30: the rows of the latest batch.
LoadRows ==
    /\ dashPc = "rows"
    /\ \E ok \in BOOLEAN :
          IF tableExists /\ ok
          THEN /\ df' = [columns |-> sql_cols, rows |-> sql_query(store)]
               /\ dashPc' = "max"
               /\ UNCHANGED <<cache, last_updated, dashLog>>
          ELSE LoadExcept                         \* duckdb.Error
    /\ UNCHANGED <<storeVars, ingVars, monoClock, dashCon, dashOutcome>>

\* Lines 32-36: the watermark, con.close(), return.
LoadMax ==
    /\ dashPc = "max"
    /\ \E ok \in BOOLEAN :
          IF ok
          THEN /\ last_updated' = MaxStamp(store)
               /\ dashCon' = FALSE
               /\ cache' = Populate(cache, df, MaxStamp(store), monoClock)
               /\ dashPc' = "render"
               /\ UNCHANGED <<df, dashLog>>
          ELSE /\ LoadExcept                      \* duckdb.Error
               /\ UNCHANGED dashCon
    /\ UNCHANGED <<storeVars, ingVars, monoClock, dashOutcome>>

\* Lines 62-68: fillna on the plotted columns.
CleanForPlot(rows) ==
    [i \in DOMAIN rows |->
        [rows[i] EXCEPT
            !.latitude = IF @ = NaN THEN 0 ELSE @,
            !.longitude = IF @ = NaN THEN 0 ELSE @,
            !.callsign = IF @ = NULL THEN "N/A" ELSE @,
            !.origin_country = IF @ = NULL THEN "None" ELSE @]]

Values(rows, col) == {rows[i][col] : i \in DOMAIN rows}

\* df.drop(columns=names) raises KeyError for a name that is no column.
DropRaises(cols, names) == ~ (names \subseteq cols)

\* Lines 70-159 on a frame with rows, with the two selectbox choices.
RenderRows(d, selected_country, selected_callsign) ==
    LET clean == CleanForPlot(d.rows)
        df_filtered ==
            IF selected_country # "All"
            THEN SelectSeq(clean, LAMBDA r : r.origin_country = selected_country)
            ELSE clean
        df_final ==
            IF selected_callsign # "All"
            THEN SelectSeq(df_filtered, LAMBDA r : r.callsign = selected_callsign)
            ELSE df_filtered
    IN  IF df_final = <<>> THEN "stopped"             \* lines 109-111
        ELSE IF DropRaises(d.columns, {"rn"}) THEN "crash"   \* line 159
        ELSE "rendered"

\* Lines 45-159: the rest of the script.
DashRender ==
    /\ dashPc = "render"
    /\ dashPc' = "idle"
    /\ IF df.rows = <<>>
       THEN dashOutcome' = "empty"                    \* lines 59-60
       ELSE \E sc \in {"All"} \cup Values(CleanForPlot(df.rows), "origin_country") :
            \E cs \in {"All"} \cup
                      Values(SelectSeq(CleanForPlot(df.rows),
                                       LAMBDA r : sc = "All" \/ r.origin_country = sc),
                             "callsign") :
               dashOutcome' =
                  LET how == RenderRows(df, sc, cs)
                  IN  IF how # "rendered" THEN how
                      ELSE IF dashLog.fromCache THEN "cached" ELSE "fresh"
    \* The script run is over: its names are unbound, load_data's abandoned
    \* connection object is collected.
    /\ df' = EmptyFrame
    /\ last_updated' = NoTime
    /\ dashCon' = FALSE
    /\ dashLog' = NoCall
    /\ UNCHANGED <<storeVars, ingVars, monoClock, cache>>

Dashboard ==
    \/ DashCallHit
    \/ DashCallMiss
    \/ LoadConnect
    \/ LoadRows
    \/ LoadMax
    \/ DashRender

\* ------------------------------------------------------- specification
Init ==
    /\ store = <<>>
    /\ tableExists = FALSE
    /\ wallClock = 0
    /\ ingPc = "idle"
    /\ ingDf = EmptyFrame
    /\ ingCon = FALSE
    /\ ingRuns = 0
    /\ ingLog = [feedError |-> FALSE, connected |-> FALSE, storeBefore |-> <<>>,
                 batch |-> <<>>, outcome |-> "none"]
    /\ monoClock = 0
    /\ cache = NoEntry
    /\ dashPc = "idle"
    /\ dashCon = FALSE
    /\ df = EmptyFrame
    /\ last_updated = NoTime
    /\ dashLog = NoCall
    /\ dashOutcome = "none"

\* The ingestion job alone.
NextIngest == Ingest
SpecIngest == Init /\ [][NextIngest]_vars

\* The ingestion job and the dashboard side by side, within one ttl of the
\* dashboard's start.
NextStore == Ingest \/ Dashboard
SpecStore == Init /\ [][NextStore]_vars

\* The tables the ingestion job leaves behind after its first run: none, an
\* empty one (the INSERT failed), or one batch.
FirstBatches ==
    {Normalize(snap, t).rows :
        snap \in {x \in Snapshots :
                     /\ {"latitude", "longitude"} \subseteq Rename(x.columns)
                     /\ DropNa(x.rows) # <<>>},
        t \in FetchLatency}

\* The dashboard over the table as the ingestion job has left it, the job idle.
InitAtRest ==
    /\ \/ /\ store = <<>>
          /\ tableExists = FALSE
          /\ wallClock = 0
          /\ ingRuns = 0
          /\ ingLog = [feedError |-> FALSE, connected |-> FALSE,
                       storeBefore |-> <<>>, batch |-> <<>>, outcome |-> "none"]
       \/ \E b \in FirstBatches, saved \in BOOLEAN :
          /\ store = IF saved THEN b ELSE <<>>
          /\ tableExists = TRUE
          /\ wallClock = b[1].updated_at_utc
          /\ ingRuns = 1
          /\ ingLog = [feedError |-> FALSE, connected |-> TRUE,
                       storeBefore |-> <<>>, batch |-> b,
                       outcome |-> IF saved THEN "saved" ELSE "insert_failed"]
    /\ ingPc = "idle"
    /\ ingDf = EmptyFrame
    /\ ingCon = FALSE
    /\ monoClock = 0
    /\ cache = NoEntry
    /\ dashPc = "idle"
    /\ dashCon = FALSE
    /\ df = EmptyFrame
    /\ last_updated = NoTime
    /\ dashLog = NoCall
    /\ dashOutcome = "none"

NextDashboard == Tick \/ Dashboard
SpecDashboard == InitAtRest /\ [][NextDashboard]_vars

\* ================================================================ claims

Range(f) == {f[i] : i \in DOMAIN f}

\* The rows a run has made visible so far: what the table holds beyond what
\* it held when the run started.
NewRows == SubSeq(store, Len(ingLog.storeBefore) + 1, Len(store))

\* The view holds exactly one row for entity e, the newest of e's rows in tbl.
LatestOf(view, tbl, e) ==
    /\ Cardinality({i \in DOMAIN view : view[i].icao24 = e}) = 1
    /\ \A i \in DOMAIN view :
          view[i].icao24 = e =>
             /\ view[i] \in Range(tbl)
             /\ \A k \in DOMAIN tbl :
                   tbl[k].icao24 = e => tbl[k].updated_at_utc <= view[i].updated_at_utc

\* C1 (as claimed; the code violates it). Whenever load_data's row query
\* answers, the frame it gets holds exactly one row for every aircraft id
\* that has a row in the table, and that row is the aircraft's newest one,
\* also for an aircraft absent from the latest batch.
C1_LatestPerEntity ==
    [][(dashPc = "rows" /\ dashPc' = "max") =>
          \A e \in Values(store, "icao24") \ {NULL} :
             LatestOf(df'.rows, store, e)]_vars

\* C2 (as claimed; the code violates it). When the body of load_data ran
\* because no live entry was found, and failed, and the cache had been
\* populated before, the call returns the value that was in the cache.
C2_StaleFallback ==
    (dashPc = "render" /\ dashLog.failed /\ dashLog.prior.filled) =>
        /\ df = dashLog.prior.df
        /\ last_updated = dashLog.prior.last

\* C3. With an entry populated at t0: a call at a time t, t0 <= t < t0 + 60,
\* returns the entry's value without running the body of load_data and leaves
\* the entry and its population time as they are (a read does not extend its
\* life); a call at a time t > t0 + 60 runs the body again; and when the body
\* returns, the entry is replaced by what it returned, stamped with that time.
C3_CacheTTL ==
    [][/\ (dashPc = "idle" /\ dashPc' # "idle" /\ cache.filled) =>
             /\ (cache.at <= monoClock /\ monoClock < cache.at + 60) =>
                    /\ dashPc' = "render"
                    /\ df' = cache.df
                    /\ last_updated' = cache.last
                    /\ cache' = cache
             /\ (monoClock > cache.at + 60) =>
                    /\ dashPc' = "connect"
                    /\ cache' = cache
       /\ (dashPc \in {"connect", "rows", "max"} /\ dashPc' = "render") =>
             /\ cache'.filled
             /\ cache'.at = monoClock
             /\ cache'.df = df'
             /\ cache'.last = last_updated'
      ]_vars

\* C3 witness: a call is served from an entry that replaced an expired one,
\* half a ttl or more after that entry was populated.
C3_Witness ==
    /\ dashPc = "render"
    /\ dashLog.fromCache
    /\ cache.gen >= 2
    /\ monoClock >= cache.at + 30
    /\ df.rows # <<>>

\* C4. In every state, at every point of a run and after every way it can
\* end, the table holds what it held when the run started followed by either
\* none of the run's batch or all of it.
C4_BatchAtomic ==
    /\ SubSeq(store, 1, Len(ingLog.storeBefore)) = ingLog.storeBefore
    /\ NewRows = <<>> \/ NewRows = ingLog.batch

\* C4 witness: the INSERT of a batch of two rows or more has failed.
C4_Witness ==
    /\ ingLog.outcome = "insert_failed"
    /\ Len(ingLog.batch) >= 2
    /\ ingPc = "idle"

\* C5. A run whose fetch raised has ended, never opened a connection, and
\* left the table as it was when the run started.
C5_FeedFailureWritesNothing ==
    ingLog.feedError =>
        /\ ingPc = "idle"
        /\ ~ingLog.connected
        /\ ~ingCon
        /\ store = ingLog.storeBefore

\* C5 witness: the fetch raised in a run that started over a table with rows.
C5_Witness ==
    /\ ingLog.feedError
    /\ ingLog.outcome = "error"
    /\ store # <<>>

\* C6 (as claimed; the code violates it). The watermark load_data returns is
\* the greatest updated_at_utc among the rows of the frame it returns, and
\* null when the frame is empty.
C6_WatermarkConsistent ==
    dashPc = "render" => last_updated = MaxStamp(df.rows)

\* C7 (as claimed; the code violates it). Every row of the table has an
\* aircraft id, a latitude and a longitude.
C7_StoredRowsValid ==
    \A i \in DOMAIN store :
        /\ store[i].icao24 # NULL
        /\ store[i].latitude # NaN
        /\ store[i].longitude # NaN

\* C8. The rows a run has appended carry one and the same updated_at_utc,
\* and it is strictly greater than that of every row the table held when the
\* run started, that is, of every row of every earlier run.
C8_BatchTimestamp ==
    /\ \A i, j \in DOMAIN NewRows :
          NewRows[i].updated_at_utc = NewRows[j].updated_at_utc
    /\ \A i \in DOMAIN NewRows : \A k \in DOMAIN ingLog.storeBefore :
          ingLog.storeBefore[k].updated_at_utc < NewRows[i].updated_at_utc

\* C8 witness: a run has appended two rows or more to a table that held rows
\* of an earlier run.
C8_Witness ==
    /\ ingLog.outcome = "saved"
    /\ ingLog.storeBefore # <<>>
    /\ Len(NewRows) >= 2

\* C9 (as claimed; the code violates it). When load_data returns, the
\* connection it opened is closed.
C9_ConnectionReleased ==
    dashPc = "render" => ~dashCon

\* C10 (as claimed; the code violates it). A dashboard run ends with fresh
\* data rendered, cached data rendered or the empty-state warning, never with
\* an exception.
C10_NoCrashOnRender ==
    dashOutcome \in {"none", "running", "fresh", "cached", "empty"}

====
